---- MODULE Spec2Model ----
(***************************************************************************)
(* Cat Facts API (src/src/main.rs): the daily scheduler (scheduled_tasks,   *)
(* calculate_time_diff), the dispatch cycle (send_subscriber_mail), the     *)
(* three store handlers (get_record, create_record, subscribe) and the      *)
(* tokio Mutex around the single store connection that they share.          *)
(*                                                                         *)
(* Time is the local wall clock counted in ticks, TicksPerSec ticks to the  *)
(* second and SecsPerDay seconds to the day; local midnights are the        *)
(* multiples of DayLen.  The clock is read only by the scheduler and is     *)
(* taken to be monotone.  Text values are sequences of one-character        *)
(* strings, so that formatting and parsing are computed, not assumed.       *)
(***************************************************************************)
EXTENDS Integers, Sequences, FiniteSets

\* ------------------------------------------------------------------ bounds
SecsPerDay == 2
MaxDays == 2
MaxFacts == 1
MaxSubs == 1

\* The clock's positions within one second.
SubSecs == {0, 1}
TicksPerSec == Cardinality(SubSecs)
DayLen == TicksPerSec * SecsPerDay
MaxClock == MaxDays * DayLen

Handlers == {"h1", "h2"}
Sched == "sched"
None == "none"

\* ------------------------------------------------------------------- texts
FactTexts == { <<"f">> }
GoodEmail == <<"a", "@", "x">>
BadEmail == <<"b", "a", "d">>
Emails == { GoodEmail, BadEmail }

\* The sender literal of line 255.
FromLiteral == <<"C", "a", "t", " ", "F", "a", "c", "t", "s">>

\* Characters an address may hold on either side of its "@".
AText == {"a", "b", "d", "f", "x", "C", "t", "F", "c", "s"}

\* Value::to_string() of a text value (lines 143, 242, 256): libsql_client
\* formats a Text value as its JSON encoding, i.e. between double quotes.
ValueToString(v) == <<"\"">> \o v \o <<"\"">>

\* str::parse::<Mailbox>() (lines 255, 256): a mailbox holds an address
\* user@domain; the text is split at its last "@", and both parts must be
\* non-empty and made of address characters.
ParseMailbox(s) ==
  \E i \in 1..Len(s) :
    /\ s[i] = "@"
    /\ i > 1
    /\ i < Len(s)
    /\ \A j \in 1..Len(s) : j # i => s[j] \in AText

\* Message::builder().from(..).to(..)...body(..).unwrap() (lines 253-260):
\* TRUE when the message is built, FALSE when one of the unwraps panics.
BuildMessage(row) == ParseMailbox(FromLiteral) /\ ParseMailbox(ValueToString(row))

\* ------------------------------------------------------------------- clock
\* NextMidnight without checked_add_days(1): the midnight that starts today.
NextMidnightToday(now) == (now \div DayLen) * DayLen

\* Local::now().checked_add_days(1).date_naive().and_hms_opt(0,0,0)
\* (lines 204, 213): the first local midnight strictly after `now`.
NextMidnight(now) == ((now \div DayLen) + 1) * DayLen

\* calculate_time_diff (lines 223-230): midnight - now converted with
\* to_std(), which is an Err for a negative duration; unwrap() then panics.
CalcTimeDiff(midnight, now) ==
  [ok |-> midnight >= now, d |-> IF midnight >= now THEN midnight - now ELSE 0]

\* AsSecs with the duration's sub-second units read as seconds.
AsSecsAsTicks(d) == d

\* Duration::as_secs() (line 217): whole seconds, the fraction dropped.
AsSecs(d) == d \div TicksPerSec

VARIABLES
  clock,              \* the local wall clock, in ticks
  tomorrow_midnight,  \* scheduled_tasks: the stored trigger time
  pc,                 \* scheduled_tasks: where the scheduler is
  wakeAt,             \* the deadline of the sleep of line 217
  panicAt,            \* where the scheduler unit panicked, or None
  serverUp,           \* the HTTP server future of bind is still polled
  owner,              \* the tokio Mutex: who holds the guard, or None
  waiters,            \* the tokio Mutex: callers queued in lock().await
  executing,          \* callers with a query in flight on the connection
  catfacts,           \* table catfacts: the fact texts, in insertion order
  subscribers,        \* table subscribers: the emails, in insertion order
  cat_fact,           \* send_subscriber_mail: the fact fetched
  rows,               \* send_subscriber_mail: the rows of the subscriber query
  idx,                \* send_subscriber_mail: rows iterated so far
  attempts,           \* mailer.send calls of the current cycle, in order
  factQ,              \* the cycle's fact query: None, "err", "empty", "row"
  subsQ,              \* the cycle's subscriber query: None, "err", "ok"
  cycleResult,        \* what send_subscriber_mail returned
  triggeredAt,        \* the clock at each dispatch cycle triggered so far
  hpc,                \* per handler: where it is
  hreq,               \* per handler: the request it serves
  hresp,              \* per handler: the response it returns
  hquery              \* per handler: its statement's outcome: None, "ok", "err"

vars == << clock, tomorrow_midnight, pc, wakeAt, panicAt, serverUp, owner,
           waiters, executing, catfacts, subscribers, cat_fact, rows, idx,
           attempts, factQ, subsQ, cycleResult, triggeredAt, hpc, hreq, hresp,
           hquery >>

schedVars == << tomorrow_midnight, pc, wakeAt, panicAt, serverUp >>
gateVars == << owner, waiters, executing >>
cycleVars == << cat_fact, rows, idx, attempts, factQ, subsQ, cycleResult >>
handlerVars == << hpc, hreq, hresp, hquery >>

\* Sequences over S of length at most n.
SeqsUpTo(S, n) == UNION { [1..k -> S] : k \in 0..n }

NoResp == [status |-> 0, body |-> <<>>]
NoReq == [kind |-> None, arg |-> <<>>]

\* The state when bind starts polling the server and scheduled_tasks
\* (lines 116-122): the tables exist (lines 75-88) and hold whatever the
\* persistent store held; the clock is somewhere in the first day.
Init ==
  /\ clock \in 0..(DayLen - 1)
  /\ tomorrow_midnight = 0
  /\ pc = "init"
  /\ wakeAt = 0
  /\ panicAt = None
  /\ serverUp = TRUE
  /\ owner = None
  /\ waiters = <<>>
  /\ executing = {}
  /\ catfacts \in SeqsUpTo(FactTexts, MaxFacts)
  /\ subscribers \in SeqsUpTo(Emails, MaxSubs)
  /\ cat_fact = <<>>
  /\ rows = <<>>
  /\ idx = 0
  /\ attempts = <<>>
  /\ factQ = None
  /\ subsQ = None
  /\ cycleResult = None
  /\ triggeredAt = <<>>
  /\ hpc = [h \in Handlers |-> "idle"]
  /\ hreq = [h \in Handlers |-> NoReq]
  /\ hresp = [h \in Handlers |-> NoResp]
  /\ hquery = [h \in Handlers |-> None]

\* The wall clock advances (Local::now(), lines 204, 213, 224).  Only the
\* scheduler reads it, so it is not followed once the scheduler is gone.
Tick ==
  /\ clock < MaxClock
  /\ pc \notin {"panicked", "dropped"}
  /\ clock' = clock + 1
  /\ UNCHANGED << schedVars, gateVars, catfacts, subscribers, cycleVars,
                  triggeredAt, handlerVars >>


\* ------------------------------------------------------------ the store gate
\* Arc<Mutex<Client>> (lines 29, 36, 91): tokio's Mutex hands the guard to
\* its waiters in arrival order.

\* Holds without the wait: the caller goes on whoever has the guard.
HoldsNoWait(c) == TRUE

\* lock().await has resolved for caller c (lines 133-134, 155-156, 174-175,
\* 236): c holds the guard.
Holds(c) == owner = c

\* c calls lock(): it takes the guard when the gate is free, and queues
\* otherwise.
LockGate(c) ==
  IF owner = None
    THEN owner' = c /\ waiters' = waiters
    ELSE owner' = owner /\ waiters' = Append(waiters, c)

\* DropGuard that leaves the guard with its holder.
DropGuardLeak == UNCHANGED << owner, waiters >>

\* The guard is dropped (end of the handler's match or if-let, return from or
\* unwinding of send_subscriber_mail): the first waiter, if any, gets it.
DropGuard ==
  IF waiters = <<>>
    THEN owner' = None /\ waiters' = waiters
    ELSE owner' = Head(waiters) /\ waiters' = Tail(waiters)

\* -------------------------------------------------------------- the scheduler
\* A panic inside scheduled_tasks unwinds through the select! of bind
\* (lines 119-122), which runs in the same task: the server future is dropped
\* with it.
Panic(where) ==
  /\ pc' = "panicked"
  /\ panicAt' = where
  /\ serverUp' = FALSE

\* Line 204: the first trigger time.
SchedInit ==
  /\ pc = "init"
  /\ tomorrow_midnight' = NextMidnight(clock)
  /\ pc' = "check"
  /\ UNCHANGED << clock, wakeAt, panicAt, serverUp, gateVars, catfacts,
                  subscribers, cycleVars, triggeredAt, handlerVars >>

\* The loop head reached although the cycle of line 211 is still running, as
\* it would be were the cycle spawned and not awaited.
AtLoopHeadNoAwait == pc \in {"check", "fact", "fact_exec", "subs_exec", "send"}

\* The loop is at its head, line 207: the sleep of line 217 is over, and so
\* is any cycle, which line 211 awaits.
AtLoopHead == pc = "check"

\* Lines 207-211: the remaining duration is computed; when it is exactly
\* zero a dispatch cycle is triggered, otherwise the loop goes on to line 215.
SchedCheck ==
  /\ AtLoopHead
  /\ LET r == CalcTimeDiff(tomorrow_midnight, clock) IN
       IF ~r.ok
         THEN /\ Panic("calculate_time_diff")
              /\ UNCHANGED << cycleVars, triggeredAt >>
         ELSE IF r.d = 0
           THEN /\ pc' = "lock"
                /\ triggeredAt' = Append(triggeredAt, clock)
                /\ cat_fact' = <<>>
                /\ rows' = <<>>
                /\ idx' = 0
                /\ attempts' = <<>>
                /\ factQ' = None
                /\ subsQ' = None
                /\ cycleResult' = None
                /\ UNCHANGED << panicAt, serverUp >>
           ELSE /\ pc' = "recalc"
                /\ UNCHANGED << panicAt, serverUp, cycleVars, triggeredAt >>
  /\ UNCHANGED << clock, tomorrow_midnight, wakeAt, gateVars, catfacts,
                  subscribers, handlerVars >>

\* Lines 215-217: the duration is computed again and the sleep for its whole
\* seconds starts.  Time that passes between the two lines shows as a late
\* wake-up.
SchedRecalc ==
  /\ pc = "recalc"
  /\ LET r == CalcTimeDiff(tomorrow_midnight, clock) IN
       IF ~r.ok
         THEN /\ Panic("calculate_time_diff")
              /\ UNCHANGED wakeAt
         ELSE /\ wakeAt' = clock + AsSecs(r.d) * TicksPerSec
              /\ pc' = "sleep"
              /\ UNCHANGED << panicAt, serverUp >>
  /\ UNCHANGED << clock, tomorrow_midnight, gateVars, catfacts, subscribers,
                  cycleVars, triggeredAt, handlerVars >>

\* Line 217: the sleep ends, no earlier than its deadline.
SchedWake ==
  /\ pc = "sleep"
  /\ clock >= wakeAt
  /\ wakeAt' = 0
  /\ pc' = "check"
  /\ UNCHANGED << clock, tomorrow_midnight, panicAt, serverUp,
                  gateVars, catfacts, subscribers, cycleVars, triggeredAt,
                  handlerVars >>

\* SchedAfterCycle with the next trigger accumulated: the previous trigger
\* plus one day, whatever the clock says.
SchedAfterCycleAccumulate ==
  /\ pc = "returned"
  /\ IF cycleResult = "Err"
       THEN /\ Panic("expect")
            /\ UNCHANGED tomorrow_midnight
       ELSE /\ tomorrow_midnight' = tomorrow_midnight + DayLen
            /\ pc' = "recalc"
            /\ UNCHANGED << panicAt, serverUp >>
  /\ UNCHANGED << clock, wakeAt, gateVars, catfacts, subscribers, cycleVars,
                  triggeredAt, handlerVars >>

\* Lines 211-213: expect() panics on an Err from the cycle; otherwise the
\* trigger time is computed anew from the clock.
SchedAfterCycle ==
  /\ pc = "returned"
  /\ IF cycleResult = "Err"
       THEN /\ Panic("expect")
            /\ UNCHANGED tomorrow_midnight
       ELSE /\ tomorrow_midnight' = NextMidnight(clock)
            /\ pc' = "recalc"
            /\ UNCHANGED << panicAt, serverUp >>
  /\ UNCHANGED << clock, wakeAt, gateVars, catfacts, subscribers, cycleVars,
                  triggeredAt, handlerVars >>


\* ---------------------------------------------------------- the dispatch cycle
\* FactOutcome with the Err arm falling through instead of returning.
FactOutcomeNoReturn(ok, table) ==
  IF Len(table) = 0 THEN "panic" ELSE "next"

\* LoopOutcome without the rows.len() > 0 test: the first row is built even
\* when there is none.
LoopOutcomeNoLenTest(rs, i) ==
  IF i >= Len(rs) /\ i > 0 THEN "Ok"
  ELSE IF i < Len(rs) /\ BuildMessage(rs[i + 1]) THEN "send" ELSE "panic"

\* Lines 238-244, the match on the fact query: an Err returns Err; an Ok
\* indexes rows[0], which panics on an empty result.
FactOutcome(ok, table) ==
  IF ~ok THEN "Err" ELSE IF Len(table) = 0 THEN "panic" ELSE "next"

\* Lines 246-249, the match on the subscriber query.
SubsOutcome(ok) == IF ok THEN "next" ELSE "Err"

\* Lines 251-268, one turn of the loop over rows with i rows done: the
\* function returns Ok after the last row (or at once for no rows); building
\* the message for the next row panics or leads to mailer.send.
LoopOutcome(rs, i) ==
  IF i >= Len(rs) THEN "Ok"
  ELSE IF BuildMessage(rs[i + 1]) THEN "send" ELSE "panic"

\* send_subscriber_mail ends: the guard taken at line 236 is dropped, on a
\* return and on unwinding alike.
CycleReturn(result) ==
  /\ cycleResult' = result
  /\ executing' = executing \ {Sched}
  /\ DropGuard
  /\ pc' = "returned"
  /\ UNCHANGED << panicAt, serverUp >>

CyclePanic(where) ==
  /\ cycleResult' = "panic"
  /\ executing' = executing \ {Sched}
  /\ DropGuard
  /\ Panic(where)

\* KeepGuard with the guard a temporary of each query, dropped after it.
KeepGuardPerQuery == DropGuard

\* Line 236 binds the guard to the local db, which lives until the function
\* ends: the gate stays held after the queries.
KeepGuard == UNCHANGED << owner, waiters >>

\* Line 236: db.lock() is called.
CycleLock ==
  /\ pc = "lock"
  /\ LockGate(Sched)
  /\ pc' = "fact"
  /\ UNCHANGED << clock, tomorrow_midnight, wakeAt, panicAt, serverUp,
                  executing, catfacts, subscribers, cycleVars, triggeredAt,
                  handlerVars >>

\* Lines 236-239: the guard is obtained and the fact query is sent.
CycleFactStart ==
  /\ pc = "fact"
  /\ Holds(Sched)
  /\ executing' = executing \cup {Sched}
  /\ pc' = "fact_exec"
  /\ UNCHANGED << clock, tomorrow_midnight, wakeAt, panicAt, serverUp, owner,
                  waiters, catfacts, subscribers, cycleVars, triggeredAt,
                  handlerVars >>

\* Lines 240-246: the fact query answers; on a fact the subscriber query is
\* sent next.
CycleFactEnd ==
  /\ pc = "fact_exec"
  /\ \E ok \in BOOLEAN :
       LET out == FactOutcome(ok, catfacts) IN
         /\ factQ' = IF ~ok THEN "err"
                      ELSE IF catfacts = <<>> THEN "empty" ELSE "row"
         /\ IF out = "Err"
              THEN /\ CycleReturn("Err")
                   /\ UNCHANGED cat_fact
              ELSE IF out = "panic"
                THEN /\ CyclePanic("rows[0]")
                     /\ UNCHANGED cat_fact
                ELSE /\ \E i \in 1..Len(catfacts) :
                          cat_fact' = ValueToString(catfacts[i])
                     /\ pc' = "subs_exec"
                     /\ UNCHANGED << panicAt, serverUp, gateVars, cycleResult >>
  /\ UNCHANGED << clock, tomorrow_midnight, wakeAt, catfacts, subscribers,
                  rows, idx, attempts, subsQ, triggeredAt, handlerVars >>

\* Lines 246-249: the subscriber query answers.
CycleSubsEnd ==
  /\ pc = "subs_exec"
  /\ \E ok \in BOOLEAN :
       /\ subsQ' = IF ok THEN "ok" ELSE "err"
       /\ IF SubsOutcome(ok) = "Err"
            THEN /\ CycleReturn("Err")
                 /\ UNCHANGED rows
            ELSE /\ rows' = subscribers
                 /\ executing' = executing \ {Sched}
                 /\ pc' = "send"
                 /\ KeepGuard
                 /\ UNCHANGED << panicAt, serverUp, cycleResult >>
  /\ UNCHANGED << clock, tomorrow_midnight, wakeAt, catfacts, subscribers,
                  cat_fact, idx, attempts, factQ, triggeredAt, handlerVars >>

\* Lines 251-268: one turn of the loop, or the return after it.  A send
\* that fails is printed (line 263) and the loop goes on.
CycleSend ==
  /\ pc = "send"
  /\ LET out == LoopOutcome(rows, idx) IN
       IF out = "Ok"
         THEN /\ CycleReturn("Ok")
              /\ UNCHANGED << idx, attempts >>
         ELSE IF out = "panic"
           THEN /\ CyclePanic("Message::builder")
                /\ UNCHANGED << idx, attempts >>
           ELSE /\ \E sent \in BOOLEAN :
                     attempts' = Append(attempts, [to |-> rows[idx + 1], ok |-> sent])
                /\ idx' = idx + 1
                /\ UNCHANGED << pc, panicAt, serverUp, gateVars, cycleResult >>
  /\ UNCHANGED << clock, tomorrow_midnight, wakeAt, catfacts, subscribers,
                  cat_fact, rows, factQ, subsQ, triggeredAt, handlerVars >>


\* ------------------------------------------------------------- the handlers
Kinds == {"get", "create", "subscribe"}

\* The request bodies: CatFact for create (line 151), EmailRequest for
\* subscribe (line 170), none for get.
Args(kind) ==
  IF kind = "create" THEN FactTexts
  ELSE IF kind = "subscribe" THEN { GoodEmail }
  ELSE { <<>> }

\* Whether the store accepts the handler's statement.  The statements of
\* lines 135 and 158 are SQL; that of line 177 says VALUE for VALUES, which
\* the store rejects with a syntax error on every call.
StatementValid(kind) == kind # "subscribe"

ErrText == <<"e", "r", "r">>
Created == <<"o", "k">>

\* create requests accepted so far and not yet answered.
PendingCreates ==
  Cardinality({ h \in Handlers : hpc[h] \in {"lock", "exec"} /\ hreq[h].kind = "create" })

\* Accepting although bind is over, as a server spawned on its own would.
AcceptingAlways == TRUE

\* The server future is polled by the select! of bind (lines 117-120): it
\* accepts connections only while bind is running.
Accepting == serverUp

\* A connection is accepted and its request reaches the handler, which calls
\* state.db.lock() (lines 131-133, 153-155, 172-174).
HBegin(h) ==
  /\ Accepting
  /\ hpc[h] = "idle"
  /\ \E kind \in Kinds : \E arg \in Args(kind) :
       /\ kind = "create" => Len(catfacts) + PendingCreates < MaxFacts
       /\ hreq' = [hreq EXCEPT ![h] = [kind |-> kind, arg |-> arg]]
  /\ hpc' = [hpc EXCEPT ![h] = "lock"]
  /\ LockGate(h)
  /\ UNCHANGED << clock, schedVars, executing, catfacts, subscribers,
                  cycleVars, triggeredAt, hresp, hquery >>

\* Lines 134-135, 156-160, 175-179: the guard is obtained and the statement
\* is sent.
HExecStart(h) ==
  /\ hpc[h] = "lock"
  /\ Holds(h)
  /\ executing' = executing \cup {h}
  /\ hpc' = [hpc EXCEPT ![h] = "exec"]
  /\ UNCHANGED << clock, schedVars, owner, waiters, catfacts, subscribers,
                  cycleVars, triggeredAt, hreq, hresp, hquery >>

\* Respond with the Err arm answering as the Ok arm does.
RespondErrAsOk(kind, ok, fact) ==
  IF kind = "get"
    THEN IF fact = <<>> THEN NoResp
         ELSE [status |-> 200, body |-> ValueToString(fact)]
    ELSE [status |-> 201, body |-> Created]

\* The handler's response to the store's answer.  get_record (lines 137-146)
\* indexes rows[0], which panics on an empty table: the connection then gets
\* no response (status 0).
Respond(kind, ok, fact) ==
  IF ~ok THEN [status |-> 500, body |-> ErrText]
  ELSE IF kind = "get"
    THEN IF fact = <<>> THEN NoResp
         ELSE [status |-> 200, body |-> ValueToString(fact)]
    ELSE [status |-> 201, body |-> Created]

\* Lines 136-146, 161-165, 180-185: the store answers, the guard is dropped
\* and the handler has its response.
HExecEnd(h) ==
  /\ hpc[h] = "exec"
  /\ \E ok \in BOOLEAN : \E i \in 0..Len(catfacts) :
       /\ ok => StatementValid(hreq[h].kind)
       /\ (i = 0) = (~ok \/ hreq[h].kind # "get" \/ catfacts = <<>>)
       /\ hquery' = [hquery EXCEPT ![h] = IF ok THEN "ok" ELSE "err"]
       /\ hresp' = [hresp EXCEPT ![h] =
                      Respond(hreq[h].kind, ok,
                              IF i = 0 THEN <<>> ELSE catfacts[i])]
       /\ catfacts' = IF ok /\ hreq[h].kind = "create"
                        THEN Append(catfacts, hreq[h].arg)
                        ELSE catfacts
  /\ executing' = executing \ {h}
  /\ DropGuard
  /\ hpc' = [hpc EXCEPT ![h] = "done"]
  /\ UNCHANGED << clock, schedVars, subscribers, cycleVars, triggeredAt, hreq >>

\* The handler returns and its response leaves.
HReturn(h) ==
  /\ hpc[h] = "done"
  /\ hpc' = [hpc EXCEPT ![h] = "idle"]
  /\ hreq' = [hreq EXCEPT ![h] = NoReq]
  /\ hresp' = [hresp EXCEPT ![h] = NoResp]
  /\ hquery' = [hquery EXCEPT ![h] = None]
  /\ UNCHANGED << clock, schedVars, gateVars, catfacts, subscribers,
                  cycleVars, triggeredAt >>

\* ------------------------------------------------------------ the server ends
\* The points at which scheduled_tasks is suspended: before its first poll,
\* in the sleep (line 217), in lock().await (line 236) and in the two queries
\* (lines 240, 246).
AwaitPoints == {"init", "sleep", "fact", "fact_exec", "subs_exec"}

\* s without its entries equal to c.
Without(s, c) == SelectSeq(s, LAMBDA x : x # c)

\* The server future completes, so the select! of bind (lines 119-122) drops
\* the suspended scheduled_tasks and bind returns (line 124).  A guard the
\* scheduler holds is dropped with it, and a lock() it waits in is withdrawn.
ServerExit ==
  /\ serverUp
  /\ pc \in AwaitPoints
  /\ serverUp' = FALSE
  /\ pc' = "dropped"
  /\ executing' = executing \ {Sched}
  /\ IF owner = Sched
       THEN DropGuard
       ELSE owner' = owner /\ waiters' = Without(waiters, Sched)
  /\ UNCHANGED << clock, tomorrow_midnight, wakeAt, panicAt, catfacts,
                  subscribers, cycleVars, triggeredAt, handlerVars >>

\* -------------------------------------------------------------- specification
Next ==
  \/ Tick
  \/ ServerExit
  \/ SchedInit
  \/ SchedCheck
  \/ SchedRecalc
  \/ SchedWake
  \/ SchedAfterCycle
  \/ CycleLock
  \/ CycleFactStart
  \/ CycleFactEnd
  \/ CycleSubsEnd
  \/ CycleSend
  \/ \E h \in Handlers : HBegin(h)
  \/ \E h \in Handlers : HExecStart(h)
  \/ \E h \in Handlers : HExecEnd(h)
  \/ \E h \in Handlers : HReturn(h)

Spec == Init /\ [][Next]_vars


\* The scheduler unit's steps, and the specification under the scheduling the
\* runtime gives: the clock advances, a task that can run is run, and every
\* store query and mail send gets its answer.  Requests need not arrive.
SchedStep ==
  \/ SchedInit
  \/ SchedCheck
  \/ SchedRecalc
  \/ SchedWake
  \/ SchedAfterCycle
  \/ CycleLock
  \/ CycleFactStart
  \/ CycleFactEnd
  \/ CycleSubsEnd
  \/ CycleSend

FairSpec ==
  /\ Spec
  /\ WF_vars(Tick)
  /\ WF_vars(SchedStep)
  /\ \A h \in Handlers :
       WF_vars(HExecStart(h)) /\ WF_vars(HExecEnd(h)) /\ WF_vars(HReturn(h))

\* ------------------------------------------------------------------ properties
\* A dispatch cycle has ended, by a return or by a panic.
CycleEnded == cycleResult # None

\* A dispatch cycle was triggered on day d.
TriggeredOn(d) ==
  \E i \in 1..Len(triggeredAt) : triggeredAt[i] \div DayLen = d

\* C1: a dispatch cycle that fails is handled locally: it never terminates
\* the scheduler unit, and so never ends the HTTP server.
C1_DispatchFailureHandled ==
  cycleResult = "Err" => (pc # "panicked" /\ serverUp)

\* C2: whenever the scheduler evaluates the remaining duration in Waiting with
\* the clock at or past the stored trigger time, it goes on to a dispatch
\* cycle.
C2_ReachedOrPassedDispatches ==
  [][(pc = "check" /\ pc' # "check" /\ clock >= tomorrow_midnight)
       => pc' = "lock"]_vars

\* C3: every local midnight that passes while the scheduler is running is
\* eventually followed by a dispatch cycle of that day.  Stated on finite
\* runs: while the stored trigger time has passed and no cycle was triggered
\* on its day, the scheduler is still running to trigger one.
C3_EveryMidnightDispatched ==
  (/\ pc # "init"
   /\ clock >= tomorrow_midnight
   /\ ~TriggeredOn(tomorrow_midnight \div DayLen))
    => pc # "panicked"

\* C4: at most one dispatch cycle is triggered per local calendar day: each
\* later trigger falls on a later day.
C4_AtMostOncePerDay ==
  \A i, j \in 1..Len(triggeredAt) :
    i < j => (triggeredAt[i] \div DayLen) < (triggeredAt[j] \div DayLen)

C4_Witness ==
  /\ Len(triggeredAt) >= 2
  /\ cycleResult = "Ok"

\* C5: a cycle whose two queries succeed attempts exactly one send per
\* subscriber row, in row order, whatever the sends' outcomes, and returns.
C5_OneSendPerSubscriber ==
  (CycleEnded /\ subsQ = "ok") =>
    /\ cycleResult = "Ok"
    /\ Len(attempts) = Len(rows)
    /\ \A i \in 1..Len(rows) : attempts[i].to = rows[i]

\* C6: a malformed stored address fails its own recipient only: the cycle
\* does not crash and a send is attempted for every other subscriber.
C6_MalformedAddressIsolated ==
  (CycleEnded /\ subsQ = "ok" /\ \E i \in 1..Len(rows) : ~ParseMailbox(rows[i])) =>
    /\ cycleResult = "Ok"
    /\ \A i \in 1..Len(rows) :
         ParseMailbox(rows[i]) => \E k \in 1..Len(attempts) : attempts[k].to = rows[i]

\* C7: a fact query that succeeds with zero rows makes the cycle return an
\* error value, with no mail sent and the scheduler still running.
C7_EmptyFactTableIsErr ==
  (CycleEnded /\ factQ = "empty") =>
    (cycleResult = "Err" /\ attempts = <<>> /\ panicAt \notin {"rows[0]"})

\* C8: a cycle whose fact query or subscriber query fails returns an error
\* value and has attempted no send.
C8_QueryFailureReturnsErr ==
  (factQ = "err" \/ subsQ = "err") => (cycleResult = "Err" /\ attempts = <<>>)

C8_Witness ==
  /\ factQ = "row"
  /\ subsQ = "err"
  /\ cycleResult = "Err"
  /\ subscribers # <<>>

\* C9: a cycle that has its fact and whose subscriber query returns no rows
\* returns success with no send attempted.
C9_EmptyListIsSuccess ==
  (CycleEnded /\ subsQ = "ok" /\ rows = <<>>) =>
    (cycleResult = "Ok" /\ attempts = <<>>)

C9_Witness ==
  /\ pc = "returned"
  /\ subsQ = "ok"
  /\ rows = <<>>
  /\ cycleResult = "Ok"

\* C10: at most one caller has a query in flight on the store connection,
\* and that caller holds the gate.
C10_OneStoreCaller ==
  /\ Cardinality(executing) <= 1
  /\ \A c \in executing : owner = c

C10_Witness ==
  \E h \in Handlers :
    /\ executing = {h}
    /\ Len(waiters) = Cardinality(Handlers)
    /\ \E i \in 1..Len(waiters) : waiters[i] = Sched


\* bind is over: the scheduler unit has panicked, or the server has ended.
ServiceEnded == ~serverUp

C12_SleepEndsAtNextMidnight ==
  [][(pc = "recalc" /\ pc' = "sleep") =>
       /\ tomorrow_midnight % DayLen = 0
       /\ clock <= tomorrow_midnight
       /\ tomorrow_midnight - DayLen <= clock
       /\ wakeAt' <= tomorrow_midnight
       /\ wakeAt' > tomorrow_midnight - TicksPerSec]_vars

C12_Witness ==
  /\ pc = "sleep"
  /\ cycleResult = "Ok"
  /\ wakeAt % TicksPerSec # 0
  /\ wakeAt < tomorrow_midnight

\* C13: a failure of the duration computation (calculate_time_diff with the
\* trigger time in the past) never panics the scheduler unit.
C13_DurationFailureNoPanic == panicAt # "calculate_time_diff"

\* C14: stored facts are never removed or changed, and every successful
\* get_record returns the text of some stored fact unchanged.
C14_GetReturnsStoredText ==
  \A h \in Handlers :
    (hpc[h] = "done" /\ hreq[h].kind = "get" /\ hresp[h].status = 200) =>
      \E i \in 1..Len(catfacts) : hresp[h].body = catfacts[i]

\* C15: when a handler's store query fails, the handler responds 500 with the
\* store's error text, the stored facts and subscribers are unchanged, and
\* the gate is released: it passes to the first waiter, or is free.
C15_HandlerQueryFailure ==
  [][\A h \in Handlers :
       (hpc[h] = "exec" /\ hpc'[h] = "done" /\ hquery'[h] = "err") =>
         /\ hresp'[h] = [status |-> 500, body |-> ErrText]
         /\ catfacts' = catfacts
         /\ subscribers' = subscribers
         /\ h \notin executing'
         /\ owner' # h
         /\ owner' = IF waiters = <<>> THEN None ELSE Head(waiters)]_vars

C15_Witness ==
  \E h, g \in Handlers :
    /\ hpc[h] = "done"
    /\ hquery[h] = "err"
    /\ hreq[h].kind = "create"
    /\ hresp[h].status = 500
    /\ hpc[g] = "lock"
    /\ owner = g

\* C16: the stored trigger time is always an exact local midnight, and when
\* the scheduler goes on after a dispatch cycle the trigger it stores is the
\* first local midnight strictly after the clock at that moment, however
\* long the cycle took.
C16_TriggerFromWallClock ==
  [][/\ tomorrow_midnight' % DayLen = 0
     /\ (pc = "returned" /\ pc' = "recalc") =>
          /\ tomorrow_midnight' > clock
          /\ tomorrow_midnight' - DayLen <= clock]_vars

C16_Witness ==
  /\ pc = "recalc"
  /\ cycleResult = "Ok"
  /\ triggeredAt # <<>>
  /\ tomorrow_midnight > triggeredAt[Len(triggeredAt)] + DayLen

\* send_subscriber_mail has been called at line 211 and has not ended.
CycleInFlight == pc \in {"lock", "fact", "fact_exec", "subs_exec", "send"}

\* C17: at most one dispatch cycle is in flight: a cycle is triggered only
\* when none is in flight.
C17_OneCycleInFlight ==
  [][triggeredAt' # triggeredAt => ~CycleInFlight]_vars

C17_Witness ==
  /\ Len(triggeredAt) >= 2
  /\ CycleInFlight
  /\ cycleResult = None

\* C18: the sleep of the Waiting state ends no earlier than the trigger time,
\* so that one sleep leads to the dispatch.
C18_SleepEndsAtTrigger ==
  [][(pc = "sleep" /\ pc' = "check") => clock >= tomorrow_midnight]_vars

\* C19: from its fact query until it returns, the send phase included, a
\* dispatch cycle holds the gate and no handler's store query executes.
C19_CycleHoldsGate ==
  pc \in {"fact_exec", "subs_exec", "send"} =>
    /\ owner = Sched
    /\ \A h \in Handlers : hpc[h] # "exec" /\ h \notin executing

C19_Witness ==
  /\ pc = "send"
  /\ rows = subscribers
  /\ rows # <<>>
  /\ \E h \in Handlers : hpc[h] = "lock" /\ hreq[h].kind = "subscribe"
  /\ Len(waiters) = Cardinality(Handlers)

\* No handler and no dispatch cycle is in progress.
AllIdle ==
  /\ ~CycleInFlight
  /\ \A h \in Handlers : hpc[h] \in {"idle", "done"}

\* C20: the gate is released on every exit path of every holder: whenever no
\* handler and no dispatch cycle is in progress the gate is free with nobody
\* queued, and, store queries and sends terminating, every handler waiting
\* on the gate eventually holds it, as does a waiting dispatch cycle unless
\* the service ends first and withdraws it.
C20_GateReleased ==
  /\ [](AllIdle => (owner = None /\ waiters = <<>> /\ executing = {}))
  /\ \A h \in Handlers : (hpc[h] = "lock") ~> (owner = h)
  /\ (pc = "fact") ~> (owner = Sched \/ ServiceEnded)

C20_Witness ==
  \E h, g \in Handlers :
    /\ hpc[h] = "lock"
    /\ owner = h
    /\ cycleResult = "Err"
    /\ hpc[g] = "done"
    /\ hquery[g] = "err"

====
